---- MODULE Spec2Model ----
(***************************************************************************)
(* Status derivation of the transporter portal (src/app.py).               *)
(*                                                                         *)
(* get_truck_status(truck_data) inspects one truck record -- the manual    *)
(* override flags, five milestone dates, the two named endpoints and the   *)
(* nested, dynamically keyed "Borders" mapping -- and returns one status   *)
(* string.  The record is modelled as a Python dict (a function whose      *)
(* domain is the set of keys present), the Borders mapping as an           *)
(* insertion-ordered dict (a sequence of <<key, value>> pairs with         *)
(* pairwise distinct keys), and every cell value as a tagged Python value. *)
(***************************************************************************)
EXTENDS Integers, Sequences, FiniteSets, TLC

VARIABLES truck, result, trucks_data, border_keys, edited_trucks_df, page

vars == <<truck, result, trucks_data, border_keys, edited_trucks_df, page>>

\* The state of the shipment editing page (lines 160-553).
shipment_page == <<trucks_data, border_keys, edited_trucks_df, page>>

(***************************************************************************)
(* Python values that occur in date cells.                                 *)
(***************************************************************************)
PyNone == [t |-> "None"]
NaT == [t |-> "NaT"]
PyStr(s) == [t |-> "str", s |-> s]
PyDate(d) == [t |-> "date", day |-> d]
PyDatetime(d) == [t |-> "datetime", day |-> d]

\* The value of `result` before get_truck_status has been called.
NotCalled == [t |-> "NotCalled"]

\* dict.get(key, default) on a dict modelled as a function.
dict_get(d, k, default) == IF k \in DOMAIN d THEN d[k] ELSE default

EmptyDict == << >>

\* The outcome of a block of the function: it returned a status, or it fell through.
Return(s) == [returned |-> TRUE, value |-> PyStr(s)]
NoReturn == [returned |-> FALSE]

\* Python truthiness of a value that is None or a str.
truthy(v) == v # PyNone /\ v # PyStr("")

\* str(v) as an f-string renders it.
format(v) == IF v = PyNone THEN "None" ELSE v.s

(***************************************************************************)
(* pd.isna and pd.to_datetime on scalars.  A string parses when it is one  *)
(* of the date strings below; every other string raises ValueError.        *)
(***************************************************************************)
pd_isna(d) == d = PyNone \/ d = NaT

ParseTable == ("2024-01-01" :> 1) @@ ("2024-01-02" :> 2)

pd_to_datetime(s) ==
    IF s \in DOMAIN ParseTable
    THEN [raised |-> FALSE, value |-> PyDatetime(ParseTable[s])]
    ELSE [raised |-> TRUE]

\* Helper to check if a date exists and is valid (not None and not pd.NaT).
is_valid_date(d) == d # PyNone /\ ~ pd_isna(d)

to_datetime_if_date(d) ==
    IF d.t \in {"date", "datetime"} THEN PyDatetime(d.day)
    ELSE IF pd_isna(d) \/ d = PyNone \/ d = PyStr("") THEN PyNone
    ELSE IF d.t = "str"
         THEN LET p == pd_to_datetime(d.s)
              IN  IF p.raised THEN d ELSE p.value
    ELSE d

(***************************************************************************)
(* Border keys.  A key is a sequence of text chunks; its string is the     *)
(* concatenation of the chunks.  re.match(r"<prefix>(.+)", key) matches    *)
(* when the key starts with the prefix chunk and at least one more chunk   *)
(* follows; group(1) is the rest of the key.                               *)
(***************************************************************************)
ArrivalPrefix == "Actual arrival at "
DispatchPrefix == "Actual dispatch from "

re_match(prefix, key) == Len(key) >= 2 /\ key[1] = prefix

group1(key) == Tail(key)

IsSpace(c) == c = " "

RECURSIVE lstrip(_)
lstrip(s) == IF s # << >> /\ IsSpace(Head(s)) THEN lstrip(Tail(s)) ELSE s

RECURSIVE rstrip(_)
rstrip(s) ==
    IF s # << >> /\ IsSpace(s[Len(s)]) THEN rstrip(SubSeq(s, 1, Len(s) - 1)) ELSE s

RECURSIVE join(_)
join(s) == IF s = << >> THEN "" ELSE Head(s) \o join(Tail(s))

\* str.strip() of the chunk sequence, as a string.
strip(s) == join(rstrip(lstrip(s)))

(***************************************************************************)
(* Lines 94-114: parse the Borders mapping in key-iteration order into     *)
(* parsed_borders (name -> {"arrival_date", "dispatch_date"}) and          *)
(* ordered_border_names (first occurrence of each name).                   *)
(***************************************************************************)
\* Variant: the entry of the border is replaced instead of completed.
setdefault_set_overwrite(parsed, border_name, field, value) ==
    (border_name :> (field :> value)) @@ parsed

setdefault_set(parsed, border_name, field, value) ==
    (border_name :> ((field :> value) @@ dict_get(parsed, border_name, EmptyDict)))
        @@ parsed

append_unique(names, border_name) ==
    IF \E i \in 1..Len(names) : names[i] = border_name
    THEN names
    ELSE Append(names, border_name)

\* Variant: a key that matches neither pattern is taken for a border name.
parse_key_keeps_unmatched(acc, key, value) ==
    IF re_match(ArrivalPrefix, key)
    THEN LET border_name == strip(group1(key))
         IN  [parsed |-> setdefault_set(acc.parsed, border_name, "arrival_date",
                                        to_datetime_if_date(value)),
              ordered |-> append_unique(acc.ordered, border_name)]
    ELSE IF re_match(DispatchPrefix, key)
    THEN LET border_name == strip(group1(key))
         IN  [parsed |-> setdefault_set(acc.parsed, border_name, "dispatch_date",
                                        to_datetime_if_date(value)),
              ordered |-> append_unique(acc.ordered, border_name)]
    ELSE [parsed |-> acc.parsed, ordered |-> append_unique(acc.ordered, strip(key))]

parse_key(acc, key, value) ==
    IF re_match(ArrivalPrefix, key)
    THEN LET border_name == strip(group1(key))
         IN  [parsed |-> setdefault_set(acc.parsed, border_name, "arrival_date",
                                        to_datetime_if_date(value)),
              ordered |-> append_unique(acc.ordered, border_name)]
    ELSE IF re_match(DispatchPrefix, key)
    THEN LET border_name == strip(group1(key))
         IN  [parsed |-> setdefault_set(acc.parsed, border_name, "dispatch_date",
                                        to_datetime_if_date(value)),
              ordered |-> append_unique(acc.ordered, border_name)]
    ELSE acc

RECURSIVE parse_borders(_, _, _)
parse_borders(borders_data, i, acc) ==
    IF i > Len(borders_data) THEN acc
    ELSE parse_borders(borders_data, i + 1,
                       parse_key(acc, borders_data[i][1], borders_data[i][2]))

(***************************************************************************)
(* Lines 116-138: the single forward pass over ordered_border_names.       *)
(* The result is either a returned status or the last_cleared_border the   *)
(* loop ended with.                                                        *)
(***************************************************************************)
RECURSIVE border_loop(_, _, _, _, _)
border_loop(names, i, parsed, last_cleared_border, load_location) ==
    IF i > Len(names)
    THEN [returned |-> FALSE, last_cleared_border |-> last_cleared_border]
    ELSE LET border_name == names[i]
             entry == dict_get(parsed, border_name, EmptyDict)
             arrival_dt == dict_get(entry, "arrival_date", PyNone)
             dispatch_dt == dict_get(entry, "dispatch_date", PyNone)
         IN  IF is_valid_date(arrival_dt) /\ ~ is_valid_date(dispatch_dt)
             THEN Return("Clearing at " \o border_name)
             ELSE IF is_valid_date(arrival_dt) /\ is_valid_date(dispatch_dt)
             THEN border_loop(names, i + 1, parsed, PyStr(border_name),
                              load_location)
             ELSE IF ~ is_valid_date(arrival_dt) /\ ~ is_valid_date(dispatch_dt)
             THEN IF truthy(last_cleared_border)
                  THEN Return("Departing from " \o format(last_cleared_border)
                              \o " enroute to " \o border_name)
                  ELSE Return("Departing from " \o format(load_location)
                              \o " enroute to " \o border_name)
             ELSE border_loop(names, i + 1, parsed, last_cleared_border,
                              load_location)

(***************************************************************************)
(* Lines 92-149: the branch taken when the dispatch date is valid.  When   *)
(* neither the loop nor the two tests after it return, the function falls  *)
(* off its end and Python returns None.                                    *)
(***************************************************************************)
Reverse(s) == [i \in DOMAIN s |-> s[Len(s) + 1 - i]]

\* Variant: the borders are scanned from the end of the sequence.
border_checks_from_end(borders_data, load_location, destination, dispatch_date_dt) ==
    LET acc == parse_borders(borders_data, 1,
                             [parsed |-> EmptyDict, ordered |-> << >>])
        loop == border_loop(Reverse(acc.ordered), 1, acc.parsed, PyNone, load_location)
    IN  IF loop.returned THEN loop.value
        ELSE IF truthy(loop.last_cleared_border)
        THEN PyStr("Departing from " \o format(loop.last_cleared_border)
                   \o " enroute to " \o format(destination))
        ELSE IF is_valid_date(dispatch_date_dt) /\ acc.ordered = << >>
        THEN PyStr("Departing from " \o format(load_location)
                   \o " enroute to " \o format(destination))
        ELSE PyNone

border_checks(borders_data, load_location, destination, dispatch_date_dt) ==
    LET acc == parse_borders(borders_data, 1,
                             [parsed |-> EmptyDict, ordered |-> << >>])
        loop == border_loop(acc.ordered, 1, acc.parsed, PyNone, load_location)
    IN  IF loop.returned THEN loop.value
        ELSE IF truthy(loop.last_cleared_border)
        THEN PyStr("Departing from " \o format(loop.last_cleared_border)
                   \o " enroute to " \o format(destination))
        ELSE IF is_valid_date(dispatch_date_dt) /\ acc.ordered = << >>
        THEN PyStr("Departing from " \o format(load_location)
                   \o " enroute to " \o format(destination))
        ELSE PyNone

(***************************************************************************)
(* Lines 43-47: the immediate status checks on the override flags.          *)
(***************************************************************************)
\* Variant: the flag "Flag" is tested before "Cancel".
immediate_status_checks_flag_first(truck_data) ==
    IF dict_get(truck_data, "Flag", FALSE) THEN Return("Flagged")
    ELSE IF dict_get(truck_data, "Cancel", FALSE) THEN Return("Cancelled")
    ELSE NoReturn

\* Variant: the flag "Flag" is not tested.
immediate_status_checks_no_flag(truck_data) ==
    IF dict_get(truck_data, "Cancel", FALSE) THEN Return("Cancelled")
    ELSE NoReturn

immediate_status_checks(truck_data) ==
    IF dict_get(truck_data, "Cancel", FALSE) THEN Return("Cancelled")
    ELSE IF dict_get(truck_data, "Flag", FALSE) THEN Return("Flagged")
    ELSE NoReturn

(***************************************************************************)
(* Lines 86-90: the primary status checks on the two final milestones.     *)
(***************************************************************************)
\* Variant: the arrival at the destination is tested before the offloading.
primary_status_checks_arrived_first(date_offloaded_dt, date_arrived_dt) ==
    IF is_valid_date(date_arrived_dt) THEN Return("Arrived for off loading")
    ELSE IF is_valid_date(date_offloaded_dt) THEN Return("Offloaded")
    ELSE NoReturn

\* Variant: the arrival at the destination is not tested.
primary_status_checks_no_arrived(date_offloaded_dt, date_arrived_dt) ==
    IF is_valid_date(date_offloaded_dt) THEN Return("Offloaded")
    ELSE NoReturn

primary_status_checks(date_offloaded_dt, date_arrived_dt) ==
    IF is_valid_date(date_offloaded_dt) THEN Return("Offloaded")
    ELSE IF is_valid_date(date_arrived_dt) THEN Return("Arrived for off loading")
    ELSE NoReturn

(***************************************************************************)
(* Lines 152-158: the pre-dispatch statuses.                               *)
(***************************************************************************)
pre_dispatch_status(loaded_date_dt, arrived_at_loading_point_dt) ==
    IF is_valid_date(loaded_date_dt) THEN PyStr("Loaded")
    ELSE IF is_valid_date(arrived_at_loading_point_dt) THEN PyStr("Waiting to load")
    ELSE PyStr("Booked")

(***************************************************************************)
(* Lines 40-158: get_truck_status.                                         *)
(***************************************************************************)
get_truck_status(truck_data) ==
    LET immediate == immediate_status_checks(truck_data)
        arrived_at_loading_point == dict_get(truck_data, "Arrived at Loading point", PyNone)
        loaded_date == dict_get(truck_data, "Loaded Date", PyNone)
        dispatch_date == dict_get(truck_data, "Dispatch date", PyNone)
        date_arrived == dict_get(truck_data, "Date Arrived", PyNone)
        date_offloaded == dict_get(truck_data, "Date offloaded", PyNone)
        load_location == dict_get(truck_data, "Load Location", PyStr("N/A"))
        destination == dict_get(truck_data, "Destination", PyStr("N/A"))
        borders_data == dict_get(truck_data, "Borders", EmptyDict)
        arrived_at_loading_point_dt == to_datetime_if_date(arrived_at_loading_point)
        loaded_date_dt == to_datetime_if_date(loaded_date)
        dispatch_date_dt == to_datetime_if_date(dispatch_date)
        date_arrived_dt == to_datetime_if_date(date_arrived)
        date_offloaded_dt == to_datetime_if_date(date_offloaded)
        primary == primary_status_checks(date_offloaded_dt, date_arrived_dt)
    IN  IF immediate.returned THEN immediate.value
        ELSE IF primary.returned THEN primary.value
        ELSE IF is_valid_date(dispatch_date_dt)
        THEN border_checks(borders_data, load_location, destination, dispatch_date_dt)
        ELSE pre_dispatch_status(loaded_date_dt, arrived_at_loading_point_dt)

(***************************************************************************)
(* Truck records.                                                          *)
(***************************************************************************)
\* Insertion-ordered dicts over `keys` with values in `vals`, at most n keys.
OrderedDicts(keys, vals, n) ==
    UNION { { s \in [1..k -> keys \X vals] :
                \A i, j \in 1..k : i # j => s[i][1] # s[j][1] } : k \in 0..n }

TruckRecord(cancel, flag, alp, loaded, dispatch, arrived, offloaded, endpoints, borders) ==
    endpoints
    @@ ("Cancel" :> cancel) @@ ("Flag" :> flag)
    @@ ("Arrived at Loading point" :> alp) @@ ("Loaded Date" :> loaded)
    @@ ("Dispatch date" :> dispatch) @@ ("Date Arrived" :> arrived)
    @@ ("Date offloaded" :> offloaded) @@ ("Borders" :> borders)

(***************************************************************************)
(* Input domains.                                                          *)
(***************************************************************************)
\* Largest number of keys of a Borders mapping in the milestone cascade runs.
MaxCascadeKeys == 1

\* Largest number of keys of a Borders mapping in the border sub-cascade runs.
MaxBorderKeys == 3

ArrivalKey(name) == <<ArrivalPrefix, name>>
DispatchKey(name) == <<DispatchPrefix, name>>
OtherKey == <<"Remarks">>

\* Values a milestone cell can hold: absent (None, ""), a date, and a string
\* that does not parse as a date.
MilestoneVals == {PyNone, PyStr(""), PyDate(1), PyStr("garbage")}

\* Values of a border cell: absent, a datetime, and a parseable date string.
BorderVals == {PyNone, PyDatetime(1), PyStr("2024-01-02")}

CascadeKeys == {ArrivalKey("A"), DispatchKey("A"), OtherKey}

CascadeBorderVals == {PyNone, PyDatetime(1), PyStr("garbage")}

\* The keys of two borders, A and B, and a second arrival key of A that differs
\* from the first by a trailing blank.
BorderKeys ==
    {ArrivalKey("A"), DispatchKey("A"), ArrivalKey("B"), DispatchKey("B"),
     <<ArrivalPrefix, "A", " ">>}

\* The keys of border A, of a border whose name is a single blank, and a key
\* that matches neither pattern.
BlankNameKeys ==
    {ArrivalKey("A"), DispatchKey("A"), ArrivalKey(" "), DispatchKey(" "), OtherKey}

NamedEndpoints == ("Load Location" :> PyStr("X")) @@ ("Destination" :> PyStr("Y"))

\* Endpoints present, or both keys missing from the record.
EndpointChoices == {NamedEndpoints, EmptyDict}

(***************************************************************************)
(* The state machine: a truck record is given, and get_truck_status is     *)
(* applied to it (lines 257, 316 and 496 call it on a record).             *)
(***************************************************************************)
\* No Shipment Unique ID has been entered (line 163): no shipment is loaded.
NoShipment ==
    /\ trucks_data = << >>
    /\ border_keys = << >>
    /\ edited_trucks_df = << >>
    /\ page = [phase |-> "no shipment", edits |-> 0, saves |-> 0]

\* Every combination of flags and milestone values, with a small Borders mapping.
Init ==
    /\ \E cancel, flag \in BOOLEAN :
       \E alp, loaded, dispatch, arrived, offloaded \in MilestoneVals :
       \E borders \in OrderedDicts(CascadeKeys, CascadeBorderVals, MaxCascadeKeys) :
          truck = TruckRecord(cancel, flag, alp, loaded, dispatch, arrived,
                              offloaded, NamedEndpoints, borders)
    /\ result = NotCalled
    /\ NoShipment

\* Dispatched trucks (no override, not arrived, not offloaded) with every
\* Borders mapping of at most MaxBorderKeys keys out of `keys`.
InitOnTheRoad(keys) ==
    /\ \E early \in {PyNone, PyDate(1)} :
       \E late \in {<<PyNone, PyNone>>, <<PyStr(""), NaT>>} :
       \E endpoints \in EndpointChoices :
       \E borders \in OrderedDicts(keys, BorderVals, MaxBorderKeys) :
          truck = TruckRecord(FALSE, FALSE, early, early, PyDate(1), late[1],
                              late[2], endpoints, borders)
    /\ result = NotCalled
    /\ NoShipment

InitBorders == InitOnTheRoad(BorderKeys)

InitBlankNames == InitOnTheRoad(BlankNameKeys)

\* Variant: the call writes the normalised dispatch date back into the record.
Call_normalises_in_place ==
    /\ result' = get_truck_status(truck)
    /\ truck' = [truck EXCEPT !["Dispatch date"] = to_datetime_if_date(@)]
    /\ UNCHANGED shipment_page

\* A call of get_truck_status on the record: the record is only read.
Call ==
    /\ result' = get_truck_status(truck)
    /\ UNCHANGED truck
    /\ UNCHANGED shipment_page

Next == Call

Spec == Init /\ [][Next]_vars

SpecBorders == InitBorders /\ [][Next]_vars

SpecBlankNames == InitBlankNames /\ [][Next]_vars

(***************************************************************************)
(* The shipment page (lines 160-553): the trucks of one shipment are       *)
(* flattened into the rows of a grid, the grid is edited, and Save merges  *)
(* the rows back into the trucks and replaces the shipment's truck list.   *)
(* The columns kept are the ones get_truck_status reads, "Status" and the  *)
(* "Truck Number" that matches a row to its truck; the other columns       *)
(* ("Horse Number", "Trailers", "Comment", ...) are left out.              *)
(***************************************************************************)
\* Insertion-ordered dicts: keys(), `key in d`, d.get(), d[key] = value, d.update().
odict_keys(d) == [i \in DOMAIN d |-> d[i][1]]

odict_has(d, key) == \E i \in DOMAIN d : d[i][1] = key

odict_get(d, key, default) ==
    IF odict_has(d, key) THEN d[CHOOSE i \in DOMAIN d : d[i][1] = key][2] ELSE default

odict_set(d, key, value) ==
    IF odict_has(d, key)
    THEN [i \in DOMAIN d |-> IF d[i][1] = key THEN <<key, value>> ELSE d[i]]
    ELSE Append(d, <<key, value>>)

RECURSIVE odict_update(_, _, _)
odict_update(d, other, i) ==
    IF i > Len(other) THEN d
    ELSE odict_update(odict_set(d, other[i][1], other[i][2]), other, i + 1)

\* Code-point order of the text chunks: " " < "A" < "Actual a..." < "Actual d..." < "B" < "R...".
ChunkOrder ==
    (" " :> 1) @@ ("A" :> 2) @@ (ArrivalPrefix :> 3) @@ (DispatchPrefix :> 4)
    @@ ("B" :> 5) @@ ("Remarks" :> 6)

\* a < b on the strings of two keys.
RECURSIVE str_lt(_, _)
str_lt(a, b) ==
    IF b = << >> THEN FALSE
    ELSE IF a = << >> THEN TRUE
    ELSE IF a[1] # b[1] THEN ChunkOrder[a[1]] < ChunkOrder[b[1]]
    ELSE str_lt(Tail(a), Tail(b))

RECURSIVE sorted(_)
sorted(S) ==
    IF S = {} THEN << >>
    ELSE LET least == CHOOSE k \in S : \A o \in S \ {k} : str_lt(k, o)
         IN  <<least>> \o sorted(S \ {least})

\* extract_ordered_keys(data_list, "Borders"): the keys of the first truck that
\* has borders, then the keys of the other trucks, sorted.
extract_ordered_keys(data_list) ==
    LET has_borders(i) == dict_get(data_list[i], "Borders", EmptyDict) # EmptyDict
        samples == {i \in DOMAIN data_list : has_borders(i)}
        sample_borders_keys ==
            IF samples = {} THEN << >>
            ELSE LET first == CHOOSE i \in samples : \A j \in samples : i <= j
                 IN  odict_keys(data_list[first]["Borders"])
        all_unique_border_keys ==
            UNION { {k[1] : k \in {d[j] : j \in DOMAIN d}} :
                    d \in {dict_get(data_list[i], "Borders", EmptyDict) : i \in DOMAIN data_list} }
        in_sample == {sample_borders_keys[i] : i \in DOMAIN sample_borders_keys}
    IN  sample_borders_keys \o sorted(all_unique_border_keys \ in_sample)

BoolColumns == {"Cancel", "Flag"}

\* The columns converted with pd.to_datetime(...).dt.date (lines 264-269).
DateColumns ==
    {"Arrived at Loading point", "Loaded Date", "Dispatch date", "Date Arrived",
     "Date offloaded"}

TextColumns == {"Truck Number", "Status", "Load Location", "Destination"}

\* desired_columns without the border columns.
desired_columns == TextColumns \cup DateColumns \cup BoolColumns

\* One element of pd.to_datetime(column, errors="coerce").dt.date.
to_date(v) ==
    IF v.t \in {"date", "datetime"} THEN PyDate(v.day)
    ELSE IF v.t = "str" /\ v.s \in DOMAIN ParseTable THEN PyDate(ParseTable[v.s])
    ELSE NaT

\* A row of trucks_df: the flat_truck of lines 245-257 after the conversions of
\* lines 264-282.  The border columns follow border_keys.
flat_truck(truck_data, keys) ==
    [cells |->
        [col \in desired_columns |->
            IF col = "Status" THEN get_truck_status(truck_data)
            ELSE IF col \in BoolColumns THEN dict_get(truck_data, col, FALSE)
            ELSE IF col \in DateColumns THEN to_date(dict_get(truck_data, col, PyNone))
            ELSE dict_get(truck_data, col, PyNone)],
     borders |->
        [i \in DOMAIN keys |->
            <<keys[i],
              to_date(odict_get(dict_get(truck_data, "Borders", EmptyDict), keys[i], PyNone))>>]]

\* val == "" or pd.isna(val) or val is None, on a cell.
is_blank(val) == val = PyStr("") \/ pd_isna(val) \/ val = PyNone

\* Line 461: every cell of the row but Cancel and Flag is blank.
row_is_empty(row) ==
    /\ \A col \in desired_columns \ BoolColumns : is_blank(row.cells[col])
    /\ \A i \in DOMAIN row.borders : is_blank(row.borders[i][2])

\* Lines 474-479 and 484-489: blank to None, a date to a datetime at midnight.
clean(val) ==
    IF is_blank(val) THEN PyNone
    ELSE IF val.t \in {"date", "datetime"} THEN PyDatetime(val.day)
    ELSE val

\* Lines 469-496: the row with its Borders dict rebuilt in border_keys order,
\* and the status computed on it.
cleaned_row(row, keys) ==
    LET borders_data == [i \in DOMAIN keys |-> <<keys[i], clean(row.borders[i][2])>>]
        cleaned == [col \in desired_columns |->
                       IF col \in BoolColumns THEN row.cells[col]
                       ELSE clean(row.cells[col])]
                   @@ ("Borders" :> borders_data)
    IN  [cleaned EXCEPT !["Status"] = get_truck_status(cleaned)]

\* Lines 501-506: the first truck with the row's "Truck Number"; 0 when none.
original_truck_found(trucks, number) ==
    LET matches == {i \in DOMAIN trucks :
                       dict_get(trucks[i], "Truck Number", PyNone) = number}
    IN  IF number = PyNone \/ matches = {} THEN 0
        ELSE CHOOSE i \in matches : \A j \in matches : i <= j

\* Lines 514-520: the cleaned row merged into the truck; Borders with dict.update.
merge(original, cleaned) ==
    [key \in DOMAIN original \cup DOMAIN cleaned |->
        IF key \notin DOMAIN cleaned THEN original[key]
        ELSE IF key = "Borders"
        THEN odict_update(dict_get(original, "Borders", EmptyDict), cleaned[key], 1)
        ELSE cleaned[key]]

\* Lines 526-537: the base schema of a new truck, updated with the cleaned row.
new_truck(cleaned) ==
    cleaned
    @@ [col \in TextColumns \cup DateColumns |-> PyNone]
    @@ [col \in BoolColumns |-> FALSE]
    @@ ("Borders" :> EmptyDict)

\* Lines 458-537.  The trucks of trucks_data are updated in place, so
\* updated_trucks refers to them by position; a new truck is held by value.
RECURSIVE save_rows(_, _, _, _, _)
save_rows(rows, keys, i, trucks, updated_trucks) ==
    IF i > Len(rows) THEN [trucks |-> trucks, updated_trucks |-> updated_trucks]
    ELSE IF row_is_empty(rows[i]) THEN save_rows(rows, keys, i + 1, trucks, updated_trucks)
    ELSE LET cleaned == cleaned_row(rows[i], keys)
             found == original_truck_found(trucks, cleaned["Truck Number"])
         IN  IF found # 0
             THEN save_rows(rows, keys, i + 1,
                            [trucks EXCEPT ![found] = merge(@, cleaned)],
                            Append(updated_trucks, [original |-> TRUE, index |-> found]))
             ELSE save_rows(rows, keys, i + 1, trucks,
                            Append(updated_trucks,
                                   [original |-> FALSE, truck |-> new_truck(cleaned)]))

\* Line 542 on one truck: every value but Cancel and Flag is blank or an empty dict.
truck_is_empty(truck_data) ==
    \A key \in DOMAIN truck_data \ BoolColumns :
        IF key = "Borders" THEN truck_data[key] = EmptyDict
        ELSE is_blank(truck_data[key])

\* Lines 456-543: the truck list that replaces the shipment's "Trucks".
final_trucks_to_save(rows, keys, trucks) ==
    LET saved == save_rows(rows, keys, 1, trucks, << >>)
        updated_trucks ==
            [i \in DOMAIN saved.updated_trucks |->
                IF saved.updated_trucks[i].original
                THEN saved.trucks[saved.updated_trucks[i].index]
                ELSE saved.updated_trucks[i].truck]
    IN  SelectSeq(updated_trucks, LAMBDA t : ~ truck_is_empty(t))

\* Largest number of cell edits between loading the grid and Save.
MaxEdits == 1

\* Largest number of Saves of the shipment.
MaxSaves == 2

TruckNumbers == <<"T1", "T2">>

SaveBorderKeys == {ArrivalKey("A"), ArrivalKey("B")}

SaveBorderVals == {PyNone, PyDatetime(1)}

\* A dispatched truck as the shipment document stores it.
StoredTruck(number, borders) ==
    TruckRecord(FALSE, FALSE, PyDatetime(1), PyDatetime(1), PyDatetime(1), PyNone,
                PyNone, NamedEndpoints, borders)
    @@ ("Truck Number" :> PyStr(number)) @@ ("Status" :> PyNone)

\* The values a user can give a cell of the grid.
CellChoices(col) ==
    IF col = "Truck Number" THEN {PyNone, PyStr("T1"), PyStr("T2"), PyStr("T3")}
    ELSE {PyNone, PyDate(2)}

BorderCellChoices == {PyNone, PyDate(2)}

EditableColumns == {"Truck Number", "Dispatch date"}

\* A shipment of two dispatched trucks, each with its own Borders mapping.
InitSave ==
    /\ truck = EmptyDict
    /\ result = NotCalled
    /\ \E b \in [DOMAIN TruckNumbers ->
                    OrderedDicts(SaveBorderKeys, SaveBorderVals, Cardinality(SaveBorderKeys))] :
          trucks_data = [i \in DOMAIN TruckNumbers |-> StoredTruck(TruckNumbers[i], b[i])]
    /\ border_keys = << >>
    /\ edited_trucks_df = << >>
    /\ page = [phase |-> "stored", edits |-> 0, saves |-> 0]

\* Lines 166-285: the shipment is found and its trucks are flattened into the grid.
Load ==
    /\ page.phase = "stored"
    /\ border_keys' = extract_ordered_keys(trucks_data)
    /\ edited_trucks_df' =
          [i \in DOMAIN trucks_data |->
              flat_truck(trucks_data[i], extract_ordered_keys(trucks_data))]
    /\ page' = [page EXCEPT !.phase = "editing", !.edits = 0]
    /\ UNCHANGED <<truck, result, trucks_data>>

\* Lines 416-422: the user changes one cell of a column of the grid.
EditCell ==
    /\ page.phase = "editing"
    /\ page.edits < MaxEdits
    /\ \E i \in DOMAIN edited_trucks_df, col \in EditableColumns :
       \E val \in CellChoices(col) \ {edited_trucks_df[i].cells[col]} :
          edited_trucks_df' = [edited_trucks_df EXCEPT ![i].cells[col] = val]
    /\ page' = [page EXCEPT !.edits = @ + 1]
    /\ UNCHANGED <<truck, result, trucks_data, border_keys>>

\* Lines 416-422: the user changes one cell of a border column of the grid.
EditBorderCell ==
    /\ page.phase = "editing"
    /\ page.edits < MaxEdits
    /\ \E i \in DOMAIN edited_trucks_df :
       \E j \in DOMAIN border_keys :
       \E val \in BorderCellChoices \ {edited_trucks_df[i].borders[j][2]} :
          edited_trucks_df' = [edited_trucks_df EXCEPT ![i].borders[j][2] = val]
    /\ page' = [page EXCEPT !.edits = @ + 1]
    /\ UNCHANGED <<truck, result, trucks_data, border_keys>>

\* Lines 455-553: Save Changes replaces the shipment's trucks, and the page reruns.
Save ==
    /\ page.phase = "editing"
    /\ page.saves < MaxSaves
    /\ trucks_data' = final_trucks_to_save(edited_trucks_df, border_keys, trucks_data)
    /\ border_keys' = << >>
    /\ edited_trucks_df' = << >>
    /\ page' = [page EXCEPT !.phase = "stored", !.edits = 0, !.saves = @ + 1]
    /\ UNCHANGED <<truck, result>>

NextSave == Load \/ EditCell \/ EditBorderCell \/ Save

SpecSave == InitSave /\ [][NextSave]_vars

(***************************************************************************)
(* Vocabulary of the properties.                                           *)
(***************************************************************************)
Called == result # NotCalled

\* A value that is a point in time: a date, a datetime or a parseable string.
IsTimestamp(v) ==
    \/ v.t \in {"date", "datetime"}
    \/ v.t = "str" /\ v.s \in DOMAIN ParseTable

\* A value that is logically absent: None, not-a-value or the empty string.
IsAbsent(v) == v \in {PyNone, NaT, PyStr("")}

\* A non-empty string that does not parse as a date.
IsUnparseable(v) == v.t = "str" /\ v.s # "" /\ v.s \notin DOMAIN ParseTable

MilestoneFields ==
    {"Arrived at Loading point", "Loaded Date", "Dispatch date", "Date Arrived",
     "Date offloaded"}

\* The names that can occur in a templated status of the modelled records.
PlaceNames == {"A", "B", "", "X", "Y", "N/A", "None"}

StatusSet ==
    {"Cancelled", "Flagged", "Offloaded", "Arrived for off loading", "Loaded",
     "Waiting to load", "Booked"}
    \cup {"Clearing at " \o n : n \in PlaceNames}
    \cup {"Departing from " \o a \o " enroute to " \o b : a, b \in PlaceNames}

(***************************************************************************)
(* C1: a call of get_truck_status returns exactly one string of the fixed  *)
(* status set, never None, for every record -- in particular for a record  *)
(* whose borders have a dispatch timestamp but no arrival timestamp.       *)
(* Stated as the claim states it; the code falls off the end of the        *)
(* function for such a record.                                             *)
(***************************************************************************)
C1_ReturnsAStatus ==
    Called => result.t = "str" /\ result.s \in StatusSet

(***************************************************************************)
(* C2: a record whose "Cancel" flag is true resolves to "Cancelled",       *)
(* whatever the flag "Flag", the milestone dates and the Borders mapping.  *)
(***************************************************************************)
C2_CancelledOverridesAll ==
    (Called /\ truck["Cancel"]) => result = PyStr("Cancelled")

\* A cancelled, flagged and offloaded truck with a border entry was resolved.
C2_Witness ==
    /\ result = PyStr("Cancelled")
    /\ truck["Cancel"] /\ truck["Flag"]
    /\ IsTimestamp(truck["Date offloaded"])
    /\ truck["Borders"] # << >>

(***************************************************************************)
(* C3: a record with "Cancel" false and "Flag" true resolves to "Flagged", *)
(* whatever the milestone dates (a valid "Date offloaded" included) and    *)
(* the Borders mapping.                                                    *)
(***************************************************************************)
C3_FlaggedOverridesMilestones ==
    (Called /\ ~ truck["Cancel"] /\ truck["Flag"]) => result = PyStr("Flagged")

\* A flagged, offloaded truck with a border entry was resolved.
C3_Witness ==
    /\ result = PyStr("Flagged")
    /\ ~ truck["Cancel"] /\ truck["Flag"]
    /\ IsTimestamp(truck["Date offloaded"])
    /\ truck["Borders"] # << >>

(***************************************************************************)
(* C4: a record with both flags false and a valid "Date offloaded"         *)
(* timestamp resolves to "Offloaded", whatever the other four milestones   *)
(* and the Borders mapping.                                                *)
(***************************************************************************)
C4_OffloadedWins ==
    (Called /\ ~ truck["Cancel"] /\ ~ truck["Flag"]
        /\ IsTimestamp(truck["Date offloaded"]))
    => result = PyStr("Offloaded")

\* An offloaded truck that also arrived and dispatched, with a border entry.
C4_Witness ==
    /\ result = PyStr("Offloaded")
    /\ ~ truck["Cancel"] /\ ~ truck["Flag"]
    /\ IsTimestamp(truck["Date offloaded"])
    /\ IsTimestamp(truck["Date Arrived"])
    /\ IsTimestamp(truck["Dispatch date"])
    /\ truck["Borders"] # << >>

(***************************************************************************)
(* C5: a record with both flags false, "Date offloaded" absent and a valid *)
(* "Date Arrived" resolves to "Arrived for off loading", whatever the      *)
(* dispatch date, the earlier milestones and the Borders mapping (even     *)
(* with a border arrived at and not dispatched from).                      *)
(***************************************************************************)
C5_ArrivedWins ==
    (Called /\ ~ truck["Cancel"] /\ ~ truck["Flag"]
        /\ IsAbsent(truck["Date offloaded"])
        /\ IsTimestamp(truck["Date Arrived"]))
    => result = PyStr("Arrived for off loading")

\* An arrived, dispatched truck whose border A is still unresolved.
C5_Witness ==
    /\ result = PyStr("Arrived for off loading")
    /\ ~ truck["Cancel"] /\ ~ truck["Flag"]
    /\ IsAbsent(truck["Date offloaded"])
    /\ IsTimestamp(truck["Date Arrived"])
    /\ IsTimestamp(truck["Dispatch date"])
    /\ truck["Borders"] = << <<ArrivalKey("A"), PyDatetime(1)>> >>

(***************************************************************************)
(* C6: an unparseable string in a date field (a milestone or a border      *)
(* value) yields the same status as the record with that field absent.     *)
(* Stated as the claim states it; to_datetime_if_date returns such a       *)
(* string unchanged and is_valid_date then takes it for a valid date.      *)
(***************************************************************************)
WithBorderValue(record, i, v) ==
    [record EXCEPT !["Borders"] = [@ EXCEPT ![i] = <<@[1], v>>]]

C6_MalformedAsAbsent ==
    Called =>
      /\ \A f \in MilestoneFields :
            IsUnparseable(truck[f])
            => get_truck_status([truck EXCEPT ![f] = PyNone]) = result
      /\ \A i \in DOMAIN truck["Borders"] :
            IsUnparseable(truck["Borders"][i][2])
            => get_truck_status(WithBorderValue(truck, i, PyNone)) = result

(***************************************************************************)
(* Vocabulary of the border properties, read off the Borders mapping.      *)
(***************************************************************************)
KeyKind(key) ==
    IF Len(key) >= 2 /\ key[1] = ArrivalPrefix THEN "arrival"
    ELSE IF Len(key) >= 2 /\ key[1] = DispatchPrefix THEN "dispatch"
    ELSE "other"

KeyName(key) == strip(Tail(key))

\* The border names a mapping defines.
NamesOf(b) == {KeyName(b[i][1]) : i \in {j \in DOMAIN b : KeyKind(b[j][1]) # "other"}}

\* The value recorded for a border under the given kind of key, None when
\* the mapping has no such key.
EntryOf(b, kind, n) ==
    LET I == {i \in DOMAIN b : KeyKind(b[i][1]) = kind /\ KeyName(b[i][1]) = n}
    IN  IF I = {} THEN PyNone ELSE b[CHOOSE i \in I : \A j \in I : j <= i][2]

\* The position of the first key of a border in the mapping.
PositionOf(b, n) ==
    LET I == {i \in DOMAIN b : KeyKind(b[i][1]) # "other" /\ KeyName(b[i][1]) = n}
    IN  CHOOSE i \in I : \A j \in I : i <= j

HasArrival(b, n) == IsTimestamp(EntryOf(b, "arrival", n))
HasDispatch(b, n) == IsTimestamp(EntryOf(b, "dispatch", n))

\* Arrived at the border and not dispatched from it.
IsClearing(b, n) == HasArrival(b, n) /\ ~ HasDispatch(b, n)

ClearingOf(b) == {n \in NamesOf(b) : IsClearing(b, n)}

ArrivalDay(b, n) == to_datetime_if_date(EntryOf(b, "arrival", n)).day

\* The truck has dispatched and has neither arrived nor been offloaded.
OnTheRoad ==
    /\ ~ truck["Cancel"] /\ ~ truck["Flag"]
    /\ IsAbsent(truck["Date offloaded"]) /\ IsAbsent(truck["Date Arrived"])
    /\ IsTimestamp(truck["Dispatch date"])

Borders == truck["Borders"]

\* The status of the record with its Borders mapping replaced by b.
StatusWithBorders(b) == get_truck_status([truck EXCEPT !["Borders"] = b])

\* The mappings with the key/value pairs of b in any key order.
Reorderings(b) ==
    {[i \in DOMAIN b |-> b[p[i]]] : p \in Permutations(DOMAIN b)}

(***************************************************************************)
(* C7: on the road, if any border has a valid arrival and no valid         *)
(* dispatch, the status is "Clearing at <name>" for such a border, also    *)
(* when a border with neither arrival nor dispatch sits earlier in the     *)
(* sequence.  Stated as the claim states it; the code decides in a single  *)
(* forward pass, where the earlier border returns a "Departing" status.    *)
(***************************************************************************)
C7_ClearingBeforeDeparting ==
    (Called /\ OnTheRoad /\ ClearingOf(Borders) # {})
    => \E n \in ClearingOf(Borders) : result = PyStr("Clearing at " \o n)

(***************************************************************************)
(* C8, as claimed: with several borders arrived at and not dispatched      *)
(* from, the status is "Clearing at <name>" for the one latest in the      *)
(* route order (by arrival timestamp, ties by key position).               *)
(***************************************************************************)
IsLatest(b, n, S) ==
    \A m \in S \ {n} :
        \/ ArrivalDay(b, m) < ArrivalDay(b, n)
        \/ ArrivalDay(b, m) = ArrivalDay(b, n) /\ PositionOf(b, m) < PositionOf(b, n)

IsFirst(b, n, S) == \A m \in S \ {n} : PositionOf(b, n) < PositionOf(b, m)

DistinctEvents(b) ==
    \A i, j \in DOMAIN b :
        (i # j /\ KeyKind(b[i][1]) = KeyKind(b[j][1]) /\ KeyKind(b[i][1]) # "other")
        => KeyName(b[i][1]) # KeyName(b[j][1])

DistinctValidArrivals(b) ==
    /\ \A n \in NamesOf(b) : HasArrival(b, n)
    /\ \A n, m \in NamesOf(b) : n # m => ArrivalDay(b, n) # ArrivalDay(b, m)

C9_OrderedByArrival ==
    (Called /\ OnTheRoad /\ DistinctEvents(Borders) /\ DistinctValidArrivals(Borders))
    => \A b \in Reorderings(Borders) : StatusWithBorders(b) = result

(***************************************************************************)
(* C9, amended: the border sequence is the key order of the Borders        *)
(* mapping (each border at its first key): two mappings with the same      *)
(* key/value pairs that list the borders in the same order resolve to the  *)
(* same status, provided no border has two arrival keys or two dispatch    *)
(* keys (of which the later one in key order would win).                   *)
(***************************************************************************)
RECURSIVE NameOrder(_)
NameOrder(b) ==
    IF b = << >> THEN << >>
    ELSE LET rest == NameOrder(SubSeq(b, 1, Len(b) - 1))
             key == b[Len(b)][1]
         IN  IF KeyKind(key) = "other" \/ \E i \in DOMAIN rest : rest[i] = KeyName(key)
             THEN rest ELSE Append(rest, KeyName(key))

SameBorderOrder(b, c) == NameOrder(b) = NameOrder(c)

C9_OrderedByKeys ==
    (Called /\ OnTheRoad /\ DistinctEvents(Borders))
    => LET order == NameOrder(Borders)
       IN \A b \in Reorderings(Borders) :
          NameOrder(b) = order => StatusWithBorders(b) = result

\* Border A cleared and B reached, with the keys of A and B interleaved.
C9_Witness ==
    /\ OnTheRoad
    /\ Borders = << <<ArrivalKey("A"), PyDatetime(1)>>,
                    <<ArrivalKey("B"), PyStr("2024-01-02")>>,
                    <<DispatchKey("A"), PyDatetime(1)>> >>
    /\ result = PyStr("Clearing at B")

(***************************************************************************)
(* C10: on the road, with at least one border defined and every border     *)
(* having a valid arrival and a valid dispatch, the status is "Departing   *)
(* from Z enroute to <destination>", Z the last border of the sequence.    *)
(* Stated as the claim states it; for a border whose trimmed name is empty *)
(* the code takes last_cleared_border for unset and returns None.          *)
(***************************************************************************)
IsLastBorder(b, n) == \A m \in NamesOf(b) \ {n} : PositionOf(b, m) < PositionOf(b, n)

C10_FullClearance ==
    (Called /\ OnTheRoad /\ NamesOf(Borders) # {}
        /\ \A n \in NamesOf(Borders) : HasArrival(Borders, n) /\ HasDispatch(Borders, n))
    => \E z \in NamesOf(Borders) :
          /\ IsLastBorder(Borders, z)
          /\ result = PyStr("Departing from " \o z \o " enroute to "
                            \o format(dict_get(truck, "Destination", PyStr("N/A"))))

(***************************************************************************)
(* C11: on the road with no border defined -- the Borders mapping is empty *)
(* or holds only keys that match neither pattern -- the status is          *)
(* "Departing from <loadLocation> enroute to <destination>", whatever the  *)
(* loaded date and the arrival at the loading point are.                   *)
(***************************************************************************)
LoadLocationText == format(dict_get(truck, "Load Location", PyStr("N/A")))
DestinationText == format(dict_get(truck, "Destination", PyStr("N/A")))

C11_NoBordersFallback ==
    (Called /\ OnTheRoad /\ NamesOf(Borders) = {})
    => result = PyStr("Departing from " \o LoadLocationText
                      \o " enroute to " \o DestinationText)

\* A loaded and dispatched truck whose only Borders key matches neither pattern.
C11_Witness ==
    /\ OnTheRoad
    /\ Borders = << <<OtherKey, PyDatetime(1)>> >>
    /\ IsTimestamp(truck["Loaded Date"])
    /\ IsUnparseable(truck["Arrived at Loading point"])
    /\ result = PyStr("Departing from X enroute to Y")

(***************************************************************************)
(* C12: with both flags false and "Date offloaded", "Date Arrived" and     *)
(* "Dispatch date" all absent, the status is "Loaded" if the loaded date   *)
(* is valid, otherwise "Waiting to load" if the arrival at the loading     *)
(* point is valid, otherwise "Booked", whatever the Borders mapping.       *)
(* Stated as the claim states it, a valid date being a point in time; the  *)
(* code also takes an unparseable string for a valid date (C6).            *)
(***************************************************************************)
NotDispatched ==
    /\ ~ truck["Cancel"] /\ ~ truck["Flag"]
    /\ IsAbsent(truck["Date offloaded"]) /\ IsAbsent(truck["Date Arrived"])
    /\ IsAbsent(truck["Dispatch date"])

PreDispatchStatus ==
    IF IsTimestamp(truck["Loaded Date"]) THEN PyStr("Loaded")
    ELSE IF IsTimestamp(truck["Arrived at Loading point"]) THEN PyStr("Waiting to load")
    ELSE PyStr("Booked")

C12_PreDispatchFallback ==
    (Called /\ NotDispatched) => result = PreDispatchStatus

(***************************************************************************)
(* C13: on the road with no border being cleared, when lastCleared -- the  *)
(* furthest border of the sequence with a valid dispatch timestamp --      *)
(* exists and is followed by a border with neither arrival nor dispatch,   *)
(* the status is "Departing from <lastCleared> enroute to <that border>";  *)
(* the load location is the departure point only when no border has a      *)
(* valid dispatch timestamp.  Stated as the claim states it; the code sets *)
(* last_cleared_border only for a border that also has a valid arrival.    *)
(***************************************************************************)
DispatchedFrom(b) == {n \in NamesOf(b) : HasDispatch(b, n)}

IsUntouched(b, n) == ~ HasArrival(b, n) /\ ~ HasDispatch(b, n)

\* m is the border that follows n in the sequence.
Follows(b, n, m) ==
    /\ PositionOf(b, n) < PositionOf(b, m)
    /\ \A k \in NamesOf(b) \ {n, m} :
          PositionOf(b, k) < PositionOf(b, n) \/ PositionOf(b, m) < PositionOf(b, k)

C13_DepartingFromLastCleared ==
    (Called /\ OnTheRoad /\ ClearingOf(Borders) = {})
    => /\ \A last, next \in NamesOf(Borders) :
            ( /\ last \in DispatchedFrom(Borders)
              /\ \A n \in DispatchedFrom(Borders) \ {last} :
                    PositionOf(Borders, n) < PositionOf(Borders, last)
              /\ Follows(Borders, last, next)
              /\ IsUntouched(Borders, next) )
            => result = PyStr("Departing from " \o last \o " enroute to " \o next)
       /\ DispatchedFrom(Borders) # {}
            => \A n \in NamesOf(Borders) :
                  result # PyStr("Departing from " \o LoadLocationText
                                 \o " enroute to " \o n)

Saved == page.phase = "stored" /\ page.saves > 0

C15_SavedStatusIsCurrent ==
    Saved => \A i \in DOMAIN trucks_data :
                trucks_data[i]["Status"] = get_truck_status(trucks_data[i])

====
